---- MODULE Spec2Model ----
(***************************************************************************)
(* database.py: the SQLite persistence layer of the Discord bot.           *)
(*                                                                         *)
(* The state is the two tables of the database file.  Every public         *)
(* function is one action; what it was called with and what it gave back   *)
(* are kept in call / args / outcome / ret.  Timestamps are naive          *)
(* datetime values; they reach the tables as the text isoformat() makes,   *)
(* and SQLite compares that text byte by byte.  connections holds the      *)
(* sqlite3 connections that are open.                                      *)
(***************************************************************************)
EXTENDS Integers, Sequences, FiniteSets

VARIABLES
    messages,           \* rows of table messages (a set: id is the primary key)
    channel_summaries,  \* rows of table channel_summaries
    call,               \* name of the function called last
    args,               \* its arguments
    outcome,            \* "ok" | "failed" (sentinel returned) | "raised"
    ret,                \* the value returned
    pending,            \* delete_messages_older_than between its two statements
    connections         \* the sqlite3 connections that are open

vars == <<messages, channel_summaries, call, args, outcome, ret, pending, connections>>

None == "None"

(***************************************************************************)
(* Text.  A str is a sequence of character codes.                          *)
(***************************************************************************)
Min(a, b) == IF a < b THEN a ELSE b

Digit(n) == 48 + n

\* n written in two, four or six decimal digits, zero padded (%02d, %04d, %06d)
Digits2(n) == <<Digit(n \div 10), Digit(n % 10)>>

Digits4(n) == Digits2(n \div 100) \o Digits2(n % 100)

Digits6(n) == Digits2(n \div 10000) \o Digits4(n % 10000)

Num(s) == IF Len(s) = 2 THEN (s[1] - 48) * 10 + (s[2] - 48)
          ELSE IF Len(s) = 4 THEN (s[1] - 48) * 1000 + (s[2] - 48) * 100 + (s[3] - 48) * 10 + (s[4] - 48)
          ELSE (s[1] - 48) * 100000 + (s[2] - 48) * 10000 + (s[3] - 48) * 1000
               + (s[4] - 48) * 100 + (s[5] - 48) * 10 + (s[6] - 48)

\* SQLite's BINARY collation on TEXT: memcmp over the common length, then the
\* shorter text is the smaller one.
TextLess(a, b) ==
    \E i \in 1..(Min(Len(a), Len(b)) + 1) :
        /\ \A j \in 1..(i - 1) : a[j] = b[j]
        /\ \/ i > Len(a) /\ i <= Len(b)
           \/ i <= Len(a) /\ i <= Len(b) /\ a[i] < b[i]

TextLeq(a, b) == a = b \/ TextLess(a, b)

\* x BETWEEN lo AND hi
Between(x, lo, hi) == TextLeq(lo, x) /\ TextLeq(x, hi)

(***************************************************************************)
(* datetime and timedelta.  The calendar is that of the last three years   *)
(* datetime knows, 9997..9999 (none of them a leap year), so that          *)
(* datetime.max is within reach; no call below goes back beyond them.      *)
(***************************************************************************)
\* datetime.MAXYEAR
MAXYEAR == 9999

\* first year of the modelled calendar
FirstYear == MAXYEAR - 2

DaysBeforeMonth == <<0, 31, 59, 90, 120, 151, 181, 212, 243, 273, 304, 334>>

DateTime(y, mo, d, h, mi, s, us) ==
    [year |-> y, month |-> mo, day |-> d, hour |-> h, minute |-> mi,
     second |-> s, microsecond |-> us]

\* days since the last day of FirstYear - 1
Ordinal(dt) == (dt.year - FirstYear) * 365 + DaysBeforeMonth[dt.month] + dt.day

MonthOf(yday) == CHOOSE m \in 1..12 :
    /\ DaysBeforeMonth[m] < yday
    /\ m = 12 \/ yday <= DaysBeforeMonth[m + 1]

FromOrdinal(n, secs, us) ==
    LET y    == FirstYear + ((n - 1) \div 365)
        yday == ((n - 1) % 365) + 1
        m    == MonthOf(yday)
    IN  DateTime(y, m, yday - DaysBeforeMonth[m],
                 secs \div 3600, (secs % 3600) \div 60, secs % 60, us)

\* timedelta(days=, hours=, minutes=, seconds=, microseconds=), normalised
TimeDelta(d, h, mi, s, us) ==
    [days |-> d, seconds |-> h * 3600 + mi * 60 + s, microseconds |-> us]

\* dt + sign * delta, as days / seconds of the day / microseconds
ShiftParts(dt, delta, sign) ==
    LET us0  == dt.microsecond + sign * delta.microseconds
        us   == us0 % 1000000
        s0   == dt.hour * 3600 + dt.minute * 60 + dt.second
                + sign * delta.seconds + ((us0 - us) \div 1000000)
        s    == s0 % 86400
    IN  [days |-> Ordinal(dt) + sign * delta.days + ((s0 - s) \div 86400),
         seconds |-> s, microseconds |-> us]

\* datetime + timedelta raises OverflowError when the year leaves FirstYear..MAXYEAR
Overflows(dt, delta, sign) ==
    LET n == ShiftParts(dt, delta, sign).days
    IN  n < 1 \/ n > (MAXYEAR - FirstYear + 1) * 365

Shift(dt, delta, sign) ==
    LET p == ShiftParts(dt, delta, sign)
    IN  FromOrdinal(p.days, p.seconds, p.microseconds)

Plus(dt, delta) == Shift(dt, delta, 1)

Minus(dt, delta) == Shift(dt, delta, -1)

\* datetime.isoformat(): the fraction is left out when microsecond is 0
isoformat(dt) ==
    Digits4(dt.year) \o <<45>> \o Digits2(dt.month) \o <<45>> \o Digits2(dt.day)
    \o <<84>> \o Digits2(dt.hour) \o <<58>> \o Digits2(dt.minute) \o <<58>>
    \o Digits2(dt.second)
    \o (IF dt.microsecond = 0 THEN <<>> ELSE <<46>> \o Digits6(dt.microsecond))

\* datetime.fromisoformat()
fromisoformat(s) ==
    DateTime(Num(SubSeq(s, 1, 4)), Num(SubSeq(s, 6, 7)), Num(SubSeq(s, 9, 10)),
             Num(SubSeq(s, 12, 13)), Num(SubSeq(s, 15, 16)), Num(SubSeq(s, 18, 19)),
             IF Len(s) > 19 THEN Num(SubSeq(s, 21, 26)) ELSE 0)

\* date.strftime('%Y-%m-%d')
strftime(dt) == Digits4(dt.year) \o <<45>> \o Digits2(dt.month) \o <<45>> \o Digits2(dt.day)

\* the order of datetime values themselves (dt1 < dt2 in Python)
Key(dt) == <<Ordinal(dt), dt.hour * 3600 + dt.minute * 60 + dt.second, dt.microsecond>>

Before(a, b) ==
    LET ka == Key(a)
        kb == Key(b)
    IN  \/ ka[1] < kb[1]
        \/ ka[1] = kb[1] /\ ka[2] < kb[2]
        \/ ka[1] = kb[1] /\ ka[2] = kb[2] /\ ka[3] < kb[3]

NotAfter(a, b) == a = b \/ Before(a, b)

(***************************************************************************)
(* What the callers pass in.                                               *)
(***************************************************************************)
Channels == {"c1", "c2"}

Users == {"u1", "u2"}

ChannelName(c) == IF c = "c1" THEN "general" ELSE "random"

Dec(d, h, mi, s, us) == DateTime(MAXYEAR, 12, d, h, mi, s, us)

Message(message_id, author_id, channel_id, created_at, is_bot) ==
    [message_id |-> message_id, author_id |-> author_id,
     channel_id |-> channel_id, created_at |-> created_at, is_bot |-> is_bot]

\* the store_message calls the bot makes: an id may come a second time with
\* other field values
Incoming ==
    { Message("m1", "u1", "c1", Dec(30, 5, 0, 0, 0), FALSE),
      Message("m1", "u1", "c2", Dec(30, 4, 59, 59, 999999), FALSE),
      Message("m2", "u2", "c1", Dec(31, 4, 59, 59, 999999), FALSE),
      Message("m2", "u2", "c1", Dec(30, 4, 59, 59, 999999), FALSE),
      Message("m3", "u1", "c1", Dec(31, 4, 59, 59, 999999), FALSE),
      Message("m3", "u1", "c2", Dec(31, 5, 0, 0, 0), FALSE),
      Message("m4", "u2", "c2", Dec(31, 4, 59, 59, 999999), TRUE) }

\* local-time bounds handed to get_channel_messages_for_timeframe
StartBounds == { Dec(29, 23, 59, 59, 999999), Dec(30, 0, 0, 0, 0) }

EndBounds == { Dec(30, 0, 0, 0, 0), Dec(30, 23, 59, 59, 999999), Dec(31, 19, 0, 0, 0) }

\* the date argument of get_channel_messages_for_day
DayArgs == { Dec(29, 0, 0, 0, 0), Dec(30, 0, 0, 0, 0), Dec(30, 13, 30, 0, 0), Dec(31, 0, 0, 0, 0) }

\* the start_date argument of get_channel_messages_for_week
WeekArgs == { Dec(24, 0, 0, 0, 0), Dec(25, 0, 0, 0, 0), Dec(26, 0, 0, 0, 0) }

\* bounds of get_messages_for_time_range
RawBounds == { Dec(30, 5, 0, 0, 0), Dec(31, 4, 59, 59, 999999) }

\* cutoffs of delete_messages_older_than
Cutoffs == { Dec(30, 5, 0, 0, 0), Dec(31, 4, 59, 59, 999999), Dec(31, 5, 0, 0, 0) }

\* what datetime.now() answers
Nows == { Dec(31, 4, 59, 59, 999999), Dec(31, 5, 0, 0, 0) }

\* the hours argument of get_active_channels
HourArgs == {0, 24, -24}

Summary(channel_id, date, message_count, active_users) ==
    [channel_id |-> channel_id, date |-> date, message_count |-> message_count,
     active_users |-> active_users]

\* the store_channel_summary calls the summarizer makes: both are for the
\* same channel and calendar day; the names are "b", 'a"' (it holds a quote)
\* and "a"
Summaries ==
    { Summary("c1", Dec(30, 0, 0, 0, 0), 3, <<<<98>>, <<97, 34>>>>),
      Summary("c1", Dec(30, 13, 30, 0, 0), 1, <<<<97>>>>) }

Unserializable == "Unserializable"

\* metadata: None, or a dict json.dumps cannot serialise (it holds a set)
Metadatas == {None, Unserializable}

\* datetime.now() as store_channel_summary reads it
SummaryNows == { Dec(31, 5, 0, 0, 0) }

\* summaries kept at most (the table itself has no limit)
MaxSummaries == 2

(***************************************************************************)
(* The statements.                                                         *)
(***************************************************************************)
\* PRIMARY KEY id: an INSERT of a present id raises sqlite3.IntegrityError
PrimaryKeyViolation(table, row) == \E r \in table : r.id = row.id

\* INSERT OR REPLACE in place of INSERT
ReplaceMessage(table, row) == {r \in table : r.id # row.id} \cup {row}

\* the insert never committed
InsertWithoutCommit(table, row) == table

\* INSERT_MESSAGE: the table after the statement
InsertMessage(table, row) ==
    IF PrimaryKeyViolation(table, row) THEN table ELSE table \cup {row}

\* the parameter tuple store_message binds
MessageRow(message_id, author_id, channel_id, created_at, is_bot) ==
    [id |-> message_id, author_id |-> author_id, author_name |-> author_id,
     channel_id |-> channel_id, channel_name |-> ChannelName(channel_id),
     guild_id |-> None, guild_name |-> None, content |-> "hello",
     created_at |-> isoformat(created_at),
     is_bot |-> IF is_bot THEN 1 ELSE 0, is_command |-> 0, command_type |-> None]

\* SELECT COUNT(*) FROM messages
CountAll(table) == Cardinality(table)

\* SELECT COUNT(*) FROM messages WHERE author_id = ?
CountByAuthor(table, user_id) == Cardinality({r \in table : r.author_id = user_id})

\* <= in place of <
OlderOrEqual(table, cutoff) == {r \in table : TextLeq(r.created_at, cutoff)}

\* ... WHERE created_at < ?
Older(table, cutoff) == {r \in table : TextLess(r.created_at, cutoff)}

\* all orders in which ORDER BY created_at ASC may hand out the rows (rows with
\* equal created_at come in an order SQLite does not promise)
Ascending(rows) ==
    { s \in [1..Cardinality(rows) -> rows] :
        /\ \A i, j \in DOMAIN s : i # j => s[i] # s[j]
        /\ \A i, j \in DOMAIN s : i < j => TextLeq(s[i].created_at, s[j].created_at) }

\* ... WHERE channel_id = ? AND created_at BETWEEN ? AND ?
SelectChannelBetween(table, channel_id, lo, hi) ==
    {r \in table : r.channel_id = channel_id /\ Between(r.created_at, lo, hi)}

\* both bounds exclusive
SelectBetweenOpen(table, lo, hi) ==
    {r \in table : TextLess(lo, r.created_at) /\ TextLess(r.created_at, hi)}

\* ... WHERE created_at BETWEEN ? AND ?
SelectBetween(table, lo, hi) == {r \in table : Between(r.created_at, lo, hi)}

\* ... WHERE created_at >= ?
Since(table, cutoff) == {r \in table : TextLeq(cutoff, r.created_at)}

(***************************************************************************)
(* json.dumps of a list of str, and json.loads of that text.               *)
(***************************************************************************)
RECURSIVE EscapeStr(_)
EscapeStr(name) ==
    IF name = <<>> THEN <<>>
    ELSE (IF Head(name) \in {34, 92} THEN <<92, Head(name)>> ELSE <<Head(name)>>)
         \o EscapeStr(Tail(name))

RECURSIVE JoinNames(_)
JoinNames(list) ==
    IF list = <<>> THEN <<>>
    ELSE <<34>> \o EscapeStr(Head(list)) \o <<34>>
         \o (IF Len(list) > 1 THEN <<44, 32>> ELSE <<>>) \o JoinNames(Tail(list))

JsonDumps(list) == <<91>> \o JoinNames(list) \o <<93>>

RECURSIVE JsonScan(_, _, _, _, _)
JsonScan(text, i, inString, cur, acc) ==
    IF i > Len(text) THEN acc
    ELSE IF ~inString
         THEN JsonScan(text, i + 1, text[i] = 34, <<>>, acc)
         ELSE IF text[i] = 92 THEN JsonScan(text, i + 2, TRUE, Append(cur, text[i + 1]), acc)
         ELSE IF text[i] = 34 THEN JsonScan(text, i + 1, FALSE, <<>>, Append(acc, cur))
         ELSE JsonScan(text, i + 1, TRUE, Append(cur, text[i]), acc)

JsonLoads(text) == JsonScan(text, 1, FALSE, <<>>, <<>>)

(***************************************************************************)
(* The functions: what each may give back in a given state.                *)
(***************************************************************************)
Result(o, r) == [outcome |-> o, ret |-> r]

\* the dict built from a row of get_channel_messages_for_timeframe
Projection(r) ==
    [author_name |-> r.author_name, content |-> r.content,
     created_at |-> fromisoformat(r.created_at),
     is_bot |-> r.is_bot # 0, is_command |-> r.is_command # 0]

\* the dict built from a row of get_messages_for_time_range
RangeProjection(r) ==
    [id |-> r.id, author_id |-> r.author_id, author_name |-> r.author_name,
     content |-> r.content, created_at |-> fromisoformat(r.created_at),
     is_bot |-> r.is_bot # 0, is_command |-> r.is_command # 0]

\* timedelta(hours=5): local time is taken to be UTC-5
ShiftHours == 5

\* the bounds used as they come
NoShift(dt) == dt

ToUtc(dt) == Plus(dt, TimeDelta(0, ShiftHours, 0, 0, 0))

ToUtcOverflows(dt) == Overflows(dt, TimeDelta(0, ShiftHours, 0, 0, 0), 1)

get_channel_messages_for_timeframe_results(table, channel_id, start_date, end_date, dbFail) ==
    IF ToUtcOverflows(start_date) \/ ToUtcOverflows(end_date) \/ dbFail
    THEN {Result("failed", <<>>)}
    ELSE LET rows == SelectChannelBetween(table, channel_id,
                         isoformat(ToUtc(start_date)), isoformat(ToUtc(end_date)))
         IN  {Result("ok", [i \in DOMAIN o |-> Projection(o[i])]) : o \in Ascending(rows)}

\* the time of day of the argument kept
KeepTime(date) == date

\* datetime(date.year, date.month, date.day, 0, 0, 0)
DayStart(date) == DateTime(date.year, date.month, date.day, 0, 0, 0, 0)

\* datetime(date.year, date.month, date.day, 23, 59, 59, 999999)
DayEnd(date) == DateTime(date.year, date.month, date.day, 23, 59, 59, 999999)

get_channel_messages_for_day_results(table, channel_id, date, dbFail) ==
    get_channel_messages_for_timeframe_results(table, channel_id, DayStart(date), DayEnd(date), dbFail)

\* timedelta(days=6, hours=23, minutes=59, seconds=59, microseconds=999999)
WeekSpan == TimeDelta(6, 23, 59, 59, 999999)

\* the addition stands outside any try: its OverflowError reaches the caller
get_channel_messages_for_week_results(table, channel_id, start_date, dbFail) ==
    IF Overflows(start_date, WeekSpan, 1)
    THEN {Result("raised", None)}
    ELSE get_channel_messages_for_timeframe_results(table, channel_id, start_date,
                                                    Plus(start_date, WeekSpan), dbFail)

\* one entry of the mapping get_messages_for_time_range builds
ChannelEntry(o) ==
    [channel_id |-> o[1].channel_id, channel_name |-> o[1].channel_name,
     guild_id |-> o[1].guild_id, guild_name |-> o[1].guild_name,
     messages |-> [i \in DOMAIN o |-> RangeProjection(o[i])]]

get_messages_for_time_range_results(table, start_time, end_time, dbFail) ==
    IF dbFail THEN {Result("failed", <<>>)}
    ELSE LET rows == SelectBetween(table, isoformat(start_time), isoformat(end_time))
             keys == {r.channel_id : r \in rows}
             of(c) == {r \in rows : r.channel_id = c}
             orders == {f \in [keys -> UNION {Ascending(of(c)) : c \in keys}] :
                           \A c \in keys : f[c] \in Ascending(of(c))}
         IN  {Result("ok", [c \in keys |-> ChannelEntry(f[c])]) : f \in orders}

\* all orders ORDER BY message_count DESC may hand out (ties in any order)
Descending(entries) ==
    { s \in [1..Cardinality(entries) -> entries] :
        /\ \A i, j \in DOMAIN s : i # j => s[i] # s[j]
        /\ \A i, j \in DOMAIN s : i < j => s[i].message_count >= s[j].message_count }

\* COUNT(*) over the whole channel, not over the window
TotalPerChannel(table, rows) ==
    LET any(c) == CHOOSE r \in rows : r.channel_id = c
    IN  { [channel_id |-> c, channel_name |-> any(c).channel_name,
           guild_id |-> any(c).guild_id, guild_name |-> any(c).guild_name,
           message_count |-> Cardinality({r \in table : r.channel_id = c})]
          : c \in {r.channel_id : r \in rows} }

\* SELECT channel_id, ..., COUNT(*) as message_count FROM messages WHERE <rows>
\* GROUP BY channel_id (the bare columns come from some row of the group)
GroupByChannel(table, rows) ==
    LET any(c) == CHOOSE r \in rows : r.channel_id = c
    IN  { [channel_id |-> c, channel_name |-> any(c).channel_name,
           guild_id |-> any(c).guild_id, guild_name |-> any(c).guild_name,
           message_count |-> Cardinality({r \in rows : r.channel_id = c})]
          : c \in {r.channel_id : r \in rows} }

get_active_channels_results(table, hours, now, dbFail) ==
    IF Overflows(now, TimeDelta(0, hours, 0, 0, 0), -1) \/ dbFail
    THEN {Result("failed", <<>>)}
    ELSE LET cutoff_time == isoformat(Minus(now, TimeDelta(0, hours, 0, 0, 0)))
         IN  {Result("ok", o) : o \in Descending(GroupByChannel(table, Since(table, cutoff_time)))}

\* the parameter tuple store_channel_summary binds, with the AUTOINCREMENT id
SummaryRow(id, channel_id, date, message_count, active_users, now) ==
    [id |-> id, channel_id |-> channel_id, channel_name |-> ChannelName(channel_id),
     guild_id |-> None, guild_name |-> None, date |-> strftime(date),
     summary_text |-> "summary", message_count |-> message_count,
     active_users |-> Len(active_users),
     active_users_list |-> JsonDumps(active_users),
     created_at |-> isoformat(now), metadata |-> None]

NextId(table) == IF table = {} THEN 1 ELSE 1 + CHOOSE n \in {r.id : r \in table} :
                                                \A r \in table : r.id <= n

\* one summary per channel and date
UpsertSummary(table, row) ==
    {r \in table : r.channel_id # row.channel_id \/ r.date # row.date} \cup {row}

\* INSERT_CHANNEL_SUMMARY: no constraint but the surrogate key
InsertSummary(table, row) == table \cup {row}

(***************************************************************************)
(* The actions: one per public function.                                   *)
(***************************************************************************)
(***************************************************************************)
(* Connections.  Every function opens one with sqlite3.connect and uses it *)
(* as the context manager of a with statement.  Leaving the with block     *)
(* commits or rolls back; it does not close the connection, and no         *)
(* function calls close().  The connection is closed when the interpreter  *)
(* finalises the object, which is a run of its garbage collector.          *)
(***************************************************************************)
\* connections the process can hold open at once
MaxConnections == 2

FreeConnections == 1..MaxConnections

\* the connection sqlite3.connect hands out: one that is not open
NewConnection(open) ==
    CHOOSE c \in FreeConnections \ open : \A d \in FreeConnections \ open : c <= d

\* sqlite3.connect(DB_FILE)
Connect(open) == open \cup {NewConnection(open)}

\* Connection.__exit__: commit or rollback, the connection stays open
ExitWith(open, c) == open

\* the connections a function still running holds
InUse == {pending[i].conn : i \in DOMAIN pending}

\* with get_connection() as conn: ... and the return
WithConnection ==
    /\ connections # FreeConnections
    /\ connections' = ExitWith(Connect(connections), NewConnection(connections))

\* the function failed before it reached get_connection
NoConnection == connections' = connections

Init ==
    /\ messages = {}
    /\ channel_summaries = {}
    /\ call = "init_database"
    /\ args = <<>>
    /\ outcome = "ok"
    /\ ret = None
    /\ pending = <<>>
    /\ connections = ExitWith(Connect({}), NewConnection({}))

Returns(c, a, res) ==
    /\ call' = c
    /\ args' = a
    /\ outcome' = res.outcome
    /\ ret' = res.ret

store_message ==
    \E m \in Incoming, dbFail \in BOOLEAN :
        LET row == MessageRow(m.message_id, m.author_id, m.channel_id, m.created_at, m.is_bot)
        IN  /\ IF dbFail
               THEN /\ messages' = messages
                    /\ Returns("store_message", m, Result("failed", FALSE))
               ELSE IF PrimaryKeyViolation(messages, row)
               THEN /\ messages' = InsertMessage(messages, row)
                    /\ Returns("store_message", m, Result("duplicate", FALSE))
               ELSE /\ messages' = InsertMessage(messages, row)
                    /\ Returns("store_message", m, Result("ok", TRUE))
            /\ WithConnection
            /\ UNCHANGED <<channel_summaries, pending>>

get_message_count ==
    \E dbFail \in BOOLEAN :
        /\ Returns("get_message_count", <<>>,
                   IF dbFail THEN Result("failed", 0) ELSE Result("ok", CountAll(messages)))
        /\ WithConnection
        /\ UNCHANGED <<messages, channel_summaries, pending>>

get_user_message_count ==
    \E user_id \in Users, dbFail \in BOOLEAN :
        /\ Returns("get_user_message_count", [user_id |-> user_id],
                   IF dbFail THEN Result("failed", 0)
                   ELSE Result("ok", CountByAuthor(messages, user_id)))
        /\ WithConnection
        /\ UNCHANGED <<messages, channel_summaries, pending>>

get_channel_messages_for_timeframe ==
    \E channel_id \in Channels, start_date \in StartBounds, end_date \in EndBounds,
       dbFail \in BOOLEAN :
        /\ \E res \in get_channel_messages_for_timeframe_results(
                          messages, channel_id, start_date, end_date, dbFail) :
               Returns("get_channel_messages_for_timeframe",
                       [channel_id |-> channel_id, start_date |-> start_date,
                        end_date |-> end_date], res)
        /\ IF ToUtcOverflows(start_date) \/ ToUtcOverflows(end_date)
           THEN NoConnection
           ELSE WithConnection
        /\ UNCHANGED <<messages, channel_summaries, pending>>

get_channel_messages_for_day ==
    \E channel_id \in Channels, date \in DayArgs, dbFail \in BOOLEAN :
        /\ \E res \in get_channel_messages_for_day_results(messages, channel_id, date, dbFail) :
               Returns("get_channel_messages_for_day",
                       [channel_id |-> channel_id, date |-> date], res)
        /\ IF ToUtcOverflows(DayStart(date)) \/ ToUtcOverflows(DayEnd(date))
           THEN NoConnection
           ELSE WithConnection
        /\ UNCHANGED <<messages, channel_summaries, pending>>

get_channel_messages_for_week ==
    \E channel_id \in Channels, start_date \in WeekArgs, dbFail \in BOOLEAN :
        /\ \E res \in get_channel_messages_for_week_results(
                          messages, channel_id, start_date, dbFail) :
               Returns("get_channel_messages_for_week",
                       [channel_id |-> channel_id, start_date |-> start_date], res)
        /\ IF \/ Overflows(start_date, WeekSpan, 1)
              \/ ToUtcOverflows(start_date)
              \/ ToUtcOverflows(Plus(start_date, WeekSpan))
           THEN NoConnection
           ELSE WithConnection
        /\ UNCHANGED <<messages, channel_summaries, pending>>

get_messages_for_time_range ==
    \E start_time \in RawBounds, end_time \in RawBounds, dbFail \in BOOLEAN :
        /\ \E res \in get_messages_for_time_range_results(messages, start_time, end_time, dbFail) :
               Returns("get_messages_for_time_range",
                       [start_time |-> start_time, end_time |-> end_time], res)
        /\ WithConnection
        /\ UNCHANGED <<messages, channel_summaries, pending>>

get_active_channels ==
    \E hours \in HourArgs, now \in Nows, dbFail \in BOOLEAN :
        /\ \E res \in get_active_channels_results(messages, hours, now, dbFail) :
               Returns("get_active_channels", [hours |-> hours, now |-> now], res)
        /\ WithConnection
        /\ UNCHANGED <<messages, channel_summaries, pending>>

store_channel_summary ==
    \E su \in Summaries, metadata \in Metadatas, now \in SummaryNows, dbFail \in BOOLEAN :
        LET row == SummaryRow(NextId(channel_summaries), su.channel_id, su.date,
                              su.message_count, su.active_users, now)
            a   == [channel_id |-> su.channel_id, date |-> su.date,
                    message_count |-> su.message_count,
                    active_users |-> su.active_users, metadata |-> metadata]
        IN  /\ Cardinality(channel_summaries) < MaxSummaries
            /\ IF metadata = Unserializable \/ dbFail
               THEN /\ channel_summaries' = channel_summaries
                    /\ Returns("store_channel_summary", a, Result("failed", FALSE))
               ELSE /\ channel_summaries' = InsertSummary(channel_summaries, row)
                    /\ Returns("store_channel_summary", a, Result("ok", TRUE))
            /\ IF metadata = Unserializable THEN NoConnection ELSE WithConnection
            /\ UNCHANGED <<messages, pending>>

\* SELECT COUNT(*) FROM messages WHERE created_at < ?
CountOlder(table, cutoff_time_str) == Cardinality(Older(table, cutoff_time_str))

\* DELETE FROM messages WHERE created_at < ?
DeleteOlder(table, cutoff_time_str) == table \ Older(table, cutoff_time_str)

\* the whole function, no other connection writing meanwhile
delete_messages_older_than ==
    \E cutoff_time \in Cutoffs, dbFail \in BOOLEAN :
        /\ IF dbFail
           THEN /\ messages' = messages
                /\ Returns("delete_messages_older_than", [cutoff_time |-> cutoff_time],
                           Result("failed", 0))
           ELSE /\ messages' = DeleteOlder(messages, isoformat(cutoff_time))
                /\ Returns("delete_messages_older_than", [cutoff_time |-> cutoff_time],
                           Result("ok", CountOlder(messages, isoformat(cutoff_time))))
        /\ WithConnection
        /\ UNCHANGED <<channel_summaries, pending>>

\* the two statements of delete_messages_older_than as another connection sees
\* them: sqlite3 opens its transaction before the DELETE, not before the SELECT
delete_messages_older_than_count ==
    \E cutoff_time \in Cutoffs :
        /\ pending = <<>>
        /\ connections # FreeConnections
        /\ connections' = Connect(connections)
        /\ pending' = <<[cutoff_time |-> cutoff_time,
                         count |-> CountOlder(messages, isoformat(cutoff_time)),
                         conn |-> NewConnection(connections)]>>
        /\ Returns("delete_messages_older_than", [cutoff_time |-> cutoff_time],
                   Result("running", 0))
        /\ UNCHANGED <<messages, channel_summaries>>

delete_messages_older_than_delete ==
    \E dbFail \in BOOLEAN :
        /\ pending # <<>>
        /\ pending' = <<>>
        /\ IF dbFail
           THEN /\ messages' = messages
                /\ Returns("delete_messages_older_than",
                           [cutoff_time |-> pending[1].cutoff_time], Result("failed", 0))
           ELSE /\ messages' = DeleteOlder(messages, isoformat(pending[1].cutoff_time))
                /\ Returns("delete_messages_older_than",
                           [cutoff_time |-> pending[1].cutoff_time],
                           Result("ok", pending[1].count))
        /\ connections' = ExitWith(connections, pending[1].conn)
        /\ UNCHANGED channel_summaries

\* a run of the interpreter's garbage collector: the connections no running
\* function holds are finalised, which closes them
collect ==
    /\ connections # InUse
    /\ connections' = connections \cap InUse
    /\ UNCHANGED <<messages, channel_summaries, call, args, outcome, ret, pending>>

\* the functions that write, and the count that observes them
NextWrite ==
    \/ collect
    \/ store_message
    \/ store_channel_summary
    \/ delete_messages_older_than
    \/ get_message_count

\* the queries, over what store_message and delete_messages_older_than leave
NextRead ==
    \/ collect
    \/ store_message
    \/ delete_messages_older_than
    \/ get_message_count
    \/ get_user_message_count
    \/ get_channel_messages_for_timeframe
    \/ get_channel_messages_for_day
    \/ get_channel_messages_for_week
    \/ get_messages_for_time_range
    \/ get_active_channels

\* delete_messages_older_than statement by statement, store_message being
\* called through another connection
NextConc ==
    \/ collect
    \/ store_message
    \/ delete_messages_older_than_count
    \/ delete_messages_older_than_delete

Next == NextWrite \/ NextRead

Spec == Init /\ [][Next]_vars

SpecWrite == Init /\ [][NextWrite]_vars

SpecRead == Init /\ [][NextRead]_vars

SpecConc == Init /\ [][NextConc]_vars

(***************************************************************************)
(* Properties.  The datetime a row stands for is fromisoformat of its      *)
(* created_at; intervals below are intervals of datetime values.           *)
(***************************************************************************)
At(r) == fromisoformat(r.created_at)

Within(r, lo, hi) == NotAfter(lo, At(r)) /\ NotAfter(At(r), hi)

Hours(h) == TimeDelta(0, h, 0, 0, 0)

\* how often x occurs in the sequence s
Occurrences(s, x) == Cardinality({i \in DOMAIN s : s[i] = x})

\* the list holds the given projection of exactly the rows, each row once
ListsExactly(list, rows, proj(_)) ==
    /\ Len(list) = Cardinality(rows)
    /\ \A r \in rows :
           Occurrences(list, proj(r)) = Cardinality({q \in rows : proj(q) = proj(r)})

AscendingByCreatedAt(list) ==
    \A i, j \in DOMAIN list : i < j => NotAfter(list[i].created_at, list[j].created_at)

HasId(table, id) == \E r \in table : r.id = id

\* the step is a call of function f (a run of the collector leaves call as
\* it was)
Called(f) == call' = f /\ ~collect

\* C1: store_message called with an id the messages table already holds
\* returns False, leaves the number of messages as it was, and leaves the row
\* of that id with all its field values: nothing is overwritten.
C1_DuplicateRejected ==
    [][ (Called("store_message") /\ HasId(messages, args'.message_id)) =>
            /\ ret' = FALSE
            /\ Cardinality(messages') = Cardinality(messages)
            /\ \A r \in messages : r.id = args'.message_id => r \in messages'
            /\ \A r \in messages' : r.id = args'.message_id => r \in messages ]_vars

\* a second insert of a present id, carrying another channel, was refused
C1_Witness ==
    /\ call = "store_message"
    /\ outcome = "duplicate"
    /\ ret = FALSE
    /\ \E r \in messages : r.id = args.message_id /\ r.channel_id # args.channel_id

\* C2: delete_messages_older_than(cutoff), when it does not fail, removes
\* exactly the messages whose created_at is before cutoff (one at cutoff stays)
\* and no summary, returns the number of rows it removed, and returns 0 when
\* called again with the same cutoff right afterwards.
C2_DeleteOlder ==
    [][ /\ (Called("delete_messages_older_than") /\ outcome' = "ok") =>
              /\ messages' = {r \in messages : ~Before(At(r), args'.cutoff_time)}
              /\ channel_summaries' = channel_summaries
              /\ ret' = Cardinality(messages \ messages')
        /\ ( /\ call = "delete_messages_older_than" /\ outcome = "ok"
             /\ Called("delete_messages_older_than") /\ outcome' = "ok"
             /\ args' = args ) => ret' = 0 ]_vars

\* rows were removed, a message created exactly at the cutoff is still there,
\* and so is a summary
C2_Witness ==
    /\ call = "delete_messages_older_than"
    /\ outcome = "ok"
    /\ ret >= 1
    /\ \E r \in messages : At(r) = args.cutoff_time
    /\ channel_summaries # {}

\* C3: get_channel_messages_for_timeframe(channel, start, end), when it does
\* not fail, returns exactly the messages of that channel whose created_at lies
\* in [start + 5 hours, end + 5 hours], both ends included, in ascending
\* created_at order; so a message inside [start, end] but before
\* start + 5 hours is not returned.
C3_TimeframeShifted ==
    (call = "get_channel_messages_for_timeframe" /\ outcome = "ok") =>
        LET lo   == Plus(args.start_date, Hours(5))
            hi   == Plus(args.end_date, Hours(5))
            rows == {r \in messages : r.channel_id = args.channel_id /\ Within(r, lo, hi)}
        IN  /\ ListsExactly(ret, rows, Projection)
            /\ AscendingByCreatedAt(ret)

\* two messages were returned, one at each end of the shifted interval, while
\* the channel also holds a message inside [start, end] that is too early
\* and another channel holds a message inside the shifted interval
C3_Witness ==
    /\ call = "get_channel_messages_for_timeframe"
    /\ outcome = "ok"
    /\ Len(ret) = 2
    /\ ret[1].created_at = Plus(args.start_date, Hours(5))
    /\ ret[2].created_at = Plus(args.end_date, Hours(5))
    /\ \E r \in messages :
           /\ r.channel_id = args.channel_id
           /\ Within(r, args.start_date, args.end_date)
           /\ Before(At(r), Plus(args.start_date, Hours(5)))
    /\ \E r \in messages :
           /\ r.channel_id # args.channel_id
           /\ Within(r, Plus(args.start_date, Hours(5)), Plus(args.end_date, Hours(5)))

\* C4: no function ever lets an exception reach its caller.
C4_NeverRaises == outcome # "raised"

\* C5: get_messages_for_time_range(start, end), when it does not fail, shifts
\* nothing: its keys are exactly the channels with a message whose created_at
\* lies in [start, end]; under each key stand exactly that channel's messages
\* of the interval, each once, in ascending created_at order.
C5_TimeRangeUnshifted ==
    (call = "get_messages_for_time_range" /\ outcome = "ok") =>
        LET rows == {r \in messages : Within(r, args.start_time, args.end_time)}
        IN  /\ DOMAIN ret = {r.channel_id : r \in rows}
            /\ \A c \in DOMAIN ret :
                   /\ ret[c].channel_id = c
                   /\ ListsExactly(ret[c].messages, {r \in rows : r.channel_id = c},
                                   RangeProjection)
                   /\ AscendingByCreatedAt(ret[c].messages)

\* both channels are keys, one of them with two messages, and a stored message
\* outside the interval is left out
C5_Witness ==
    /\ call = "get_messages_for_time_range"
    /\ outcome = "ok"
    /\ DOMAIN ret = Channels
    /\ \E c \in DOMAIN ret :
           /\ Len(ret[c].messages) = 2
           /\ ret[c].messages[1].created_at = args.start_time
           /\ ret[c].messages[2].created_at = args.end_time
    /\ \E r \in messages : ~Within(r, args.start_time, args.end_time)

\* C6: get_active_channels(h), when it does not fail, returns one entry for
\* exactly the channels that hold a message with created_at >= now - h hours;
\* an entry's message_count is the number of the channel's messages in that
\* window, and the entries come with message_count not increasing.
C6_ActiveChannels ==
    (call = "get_active_channels" /\ outcome = "ok") =>
        LET cutoff == Minus(args.now, Hours(args.hours))
            recent == {r \in messages : NotAfter(cutoff, At(r))}
        IN  /\ Len(ret) = Cardinality({r.channel_id : r \in recent})
            /\ {ret[i].channel_id : i \in DOMAIN ret} = {r.channel_id : r \in recent}
            /\ \A i \in DOMAIN ret :
                   ret[i].message_count =
                       Cardinality({r \in recent : r.channel_id = ret[i].channel_id})
            /\ \A i, j \in DOMAIN ret : i < j => ret[i].message_count >= ret[j].message_count

\* two channels are active with different counts, the first one holds a
\* message older than the window that is not counted
C6_Witness ==
    /\ call = "get_active_channels"
    /\ outcome = "ok"
    /\ Len(ret) = 2
    /\ ret[1].message_count > ret[2].message_count
    /\ \E i \in DOMAIN ret :
           ret[i].message_count < Cardinality({r \in messages : r.channel_id = ret[i].channel_id})

\* C7: get_channel_messages_for_day(channel, D), when it does not fail,
\* returns exactly the messages of that channel with created_at in
\* [D 05:00:00, D+1 04:59:59.999999], whatever the time of day in D, and that
\* is a result of get_channel_messages_for_timeframe for the local bounds
\* D 00:00:00 and D 23:59:59.999999.
C7_DayWindow ==
    (call = "get_channel_messages_for_day" /\ outcome = "ok") =>
        LET D    == args.date
            lo   == DateTime(D.year, D.month, D.day, 5, 0, 0, 0)
            hi   == Plus(DateTime(D.year, D.month, D.day, 4, 59, 59, 999999),
                         TimeDelta(1, 0, 0, 0, 0))
            rows == {r \in messages : r.channel_id = args.channel_id /\ Within(r, lo, hi)}
        IN  /\ ListsExactly(ret, rows, Projection)
            /\ AscendingByCreatedAt(ret)
            /\ \E res \in get_channel_messages_for_timeframe_results(
                              messages, args.channel_id,
                              DateTime(D.year, D.month, D.day, 0, 0, 0, 0),
                              DateTime(D.year, D.month, D.day, 23, 59, 59, 999999), FALSE) :
                   res.ret = ret

\* the argument carried a time of day, and the first and the last instant of
\* the window were both returned
C7_Witness ==
    /\ call = "get_channel_messages_for_day"
    /\ outcome = "ok"
    /\ args.date.hour # 0
    /\ Len(ret) >= 2
    /\ \E i \in DOMAIN ret : ret[i].created_at.day = args.date.day /\ ret[i].created_at.hour = 5
    /\ \E i \in DOMAIN ret : ret[i].created_at.day = args.date.day + 1

\* C8: store_message called with an id the table does not hold, the storage
\* not failing, returns True and makes the message count (what
\* get_message_count returns) larger by exactly 1; the messages stored before
\* and the summaries stay as they were.
C8_FreshInsert ==
    [][ /\ ( /\ Called("store_message") /\ outcome' # "failed"
             /\ ~HasId(messages, args'.message_id) ) =>
              /\ ret' = TRUE
              /\ Cardinality(messages') = Cardinality(messages) + 1
              /\ messages \subseteq messages'
              /\ channel_summaries' = channel_summaries
        /\ (Called("get_message_count") /\ outcome' = "ok") =>
              ret' = Cardinality(messages') ]_vars

\* a message was added to a table that held others, summaries being present
C8_Witness ==
    /\ call = "store_message"
    /\ outcome = "ok"
    /\ ret = TRUE
    /\ Cardinality(messages) >= 2
    /\ channel_summaries # {}

\* C9: every store_channel_summary that succeeds adds exactly one row and
\* keeps the rows there were, also when a row of the same channel_id and date
\* exists; the new row's active_users is the length of the list passed in and
\* its active_users_list reads back as that list, in the same order.
C9_SummariesAccumulate ==
    [][ (Called("store_channel_summary") /\ outcome' = "ok") =>
            /\ channel_summaries \subseteq channel_summaries'
            /\ Cardinality(channel_summaries') = Cardinality(channel_summaries) + 1
            /\ \A r \in channel_summaries' \ channel_summaries :
                   /\ r.channel_id = args'.channel_id
                   /\ r.active_users = Len(args'.active_users)
                   /\ JsonLoads(r.active_users_list) = args'.active_users ]_vars

\* two rows of the same channel_id and date are both in the table
C9_Witness ==
    /\ call = "store_channel_summary"
    /\ outcome = "ok"
    /\ \E r1, r2 \in channel_summaries :
           /\ r1.id # r2.id
           /\ r1.channel_id = r2.channel_id
           /\ r1.date = r2.date
           /\ r1.active_users # r2.active_users

\* C10: the number delete_messages_older_than returns is the number of rows
\* its DELETE removed, whatever store_message calls other connections commit
\* while it runs.
C10_CountIsRemoved ==
    [][ (Called("delete_messages_older_than") /\ outcome' = "ok") =>
            ret' = Cardinality(messages \ messages') ]_vars

\* C11: every function closes the connection it opened before it returns, on
\* success and on failure: a call that has returned leaves no connection open
\* that was not open before the call.
C11_ConnectionsClosed ==
    [][ outcome' # "running" => connections' \subseteq connections ]_vars
====
